---- MODULE Spec2Model ----
(***************************************************************************)
(* Model of tornadows/complextypes.py: record types declared as            *)
(* ComplexType subclasses, their XSD (toXSD), the XML of an instance        *)
(* (toXML) and the reconstruction of a record from XML (xml2object).        *)
(*                                                                          *)
(* Text is a sequence of one-character strings.  An XML string is a         *)
(* sequence of tokens (open tag, text run, close tag) in the order in which *)
(* the code concatenates them; parseString is a parser over that sequence.  *)
(* Documents carry no namespace prefix (toXML never writes one).            *)
(***************************************************************************)
EXTENDS Integers, Sequences, FiniteSets, TLC

VARIABLES cls, obj, xml, tampered, xsd, res, conv, mapped,
          op, wsdl, reqbody, request, response, written, call, fault,
          heap, inst, solo, out

\* the state of the web service handler and the state of the object heap
svcvars  == <<op, wsdl, reqbody, request, response, written, call, fault>>
heapvars == <<heap, inst, solo, out>>

vars == <<cls, obj, xml, tampered, xsd, res, conv, mapped, svcvars, heapvars>>

(***************************************************************************)
(* Bounds of the model.                                                     *)
(***************************************************************************)
MaxItems == 2

(***************************************************************************)
(* Python values.  Every value has the same record shape so that any two    *)
(* values can be compared:                                                  *)
(*   k = "int"   n            an int                                        *)
(*   k = "float" n            a float, n in tenths (1.5 is n = 15)          *)
(*   k = "bool"  n            True (1) or False (0)                         *)
(*   k = "str"   s            a string                                      *)
(*   k = "none"               None                                          *)
(*   k = "type"  c            a builtin class object (int, str, ...)        *)
(*   k = "prop"  c, l[1]      a Property of type c holding .value l[1]      *)
(*   k = "list"  l            a list                                        *)
(*   k = "obj"   c, f         a ComplexType instance/class c, attributes f  *)
(*   k = "pair"  c, l[1]      the tuple (c, l[1]) built by xml2list         *)
(*   k = "lst"                the list named lst inside generateOBJ         *)
(***************************************************************************)
Mk(k, c, n, s, f, l) == [k |-> k, c |-> c, n |-> n, s |-> s, f |-> f, l |-> l]

NoAttrs == [a \in {} |-> 0]

IntV(n)     == Mk("int", "", n, <<>>, NoAttrs, <<>>)
FloatV(n)   == Mk("float", "", n, <<>>, NoAttrs, <<>>)
BoolV(b)    == Mk("bool", "", IF b THEN 1 ELSE 0, <<>>, NoAttrs, <<>>)
StrV(s)     == Mk("str", "", 0, s, NoAttrs, <<>>)
NoneV       == Mk("none", "", 0, <<>>, NoAttrs, <<>>)
TypeV(c)    == Mk("type", c, 0, <<>>, NoAttrs, <<>>)
PropV(c, v) == Mk("prop", c, 0, <<>>, NoAttrs, <<v>>)
ListV(l)    == Mk("list", "", 0, <<>>, NoAttrs, l)
ObjV(c, f)  == Mk("obj", c, 0, <<>>, f, <<>>)
PairV(c, v) == Mk("pair", c, 0, <<>>, NoAttrs, <<v>>)
LstRef      == Mk("lst", "", 0, <<>>, NoAttrs, <<>>)
Raised(e)   == Mk("raise", e, 0, <<>>, NoAttrs, <<>>)

IsRaised(v) == v.k = "raise"

(***************************************************************************)
(* Text: str(value), int(text), float(text).                                *)
(***************************************************************************)
DigitChars == <<"0", "1", "2", "3", "4", "5", "6", "7", "8", "9">>

IsDigit(ch) == \E i \in 1..10 : DigitChars[i] = ch

DigitVal(ch) == (CHOOSE i \in 1..10 : DigitChars[i] = ch) - 1

RECURSIVE Digits(_)
Digits(n) ==
    IF n < 10 THEN <<DigitChars[n + 1]>>
    ELSE Digits(n \div 10) \o <<DigitChars[(n % 10) + 1]>>

IntToText(n) == IF n < 0 THEN <<"-">> \o Digits(0 - n) ELSE Digits(n)

FloatToText(n) ==
    LET a == IF n < 0 THEN 0 - n ELSE n
    IN  (IF n < 0 THEN <<"-">> ELSE <<>>)
            \o Digits(a \div 10) \o <<".">> \o <<DigitChars[(a % 10) + 1]>>

AllDigits(s) == Len(s) > 0 /\ \A i \in 1..Len(s) : IsDigit(s[i])

RECURSIVE DigitsVal(_)
DigitsVal(s) ==
    IF Len(s) = 0 THEN 0
    ELSE 10 * DigitsVal(SubSeq(s, 1, Len(s) - 1)) + DigitVal(s[Len(s)])

HasSign(s) == Len(s) > 0 /\ s[1] \in {"-", "+"}

Unsigned(s) == IF HasSign(s) THEN Tail(s) ELSE s

Signed(s, n) == IF HasSign(s) /\ s[1] = "-" THEN 0 - n ELSE n

\* int(text): an optional sign and decimal digits, ValueError otherwise.
PyInt(s) ==
    IF AllDigits(Unsigned(s)) THEN IntV(Signed(s, DigitsVal(Unsigned(s))))
    ELSE Raised("ValueError")

DotAt(s) == IF \E i \in 1..Len(s) : s[i] = "."
            THEN CHOOSE i \in 1..Len(s) : s[i] = "." /\ \A j \in 1..(i - 1) : s[j] # "."
            ELSE 0

\* float(text): sign, digits, and at most one fractional digit (the texts
\* of the model carry no more), ValueError otherwise.
PyFloat(s) ==
    LET u == Unsigned(s)
        d == DotAt(u)
        ip == IF d = 0 THEN u ELSE SubSeq(u, 1, d - 1)
        fp == IF d = 0 THEN <<>> ELSE SubSeq(u, d + 1, Len(u))
    IN  IF AllDigits(ip) /\ Len(fp) <= 1 /\ (Len(fp) = 0 \/ AllDigits(fp))
        THEN FloatV(Signed(s, 10 * DigitsVal(ip) + DigitsVal(fp)))
        ELSE Raised("ValueError")

ClassText(c) ==
    <<"<", "c", "l", "a", "s", "s", " ", "'">>
        \o (CASE c = "int"   -> <<"i", "n", "t">>
              [] c = "float" -> <<"f", "l", "o", "a", "t">>
              [] c = "str"   -> <<"s", "t", "r">>
              [] c = "bool"  -> <<"b", "o", "o", "l">>
              [] OTHER       -> <<"?">>)
        \o <<"'", ">">>

\* '%s' % value
PyStr(v) ==
    CASE v.k = "int"   -> IntToText(v.n)
      [] v.k = "float" -> FloatToText(v.n)
      [] v.k = "bool"  -> IF v.n = 1 THEN <<"T", "r", "u", "e">>
                          ELSE <<"F", "a", "l", "s", "e">>
      [] v.k = "str"   -> v.s
      [] v.k = "none"  -> <<"N", "o", "n", "e">>
      [] v.k = "type"  -> ClassText(v.c)
      [] OTHER         -> <<"?">>

(***************************************************************************)
(* Declared record types.  A class body is a sequence of attributes in      *)
(* declaration order; each attribute is what the class __dict__ holds:      *)
(*   d = "prop"   c = property type      IntegerProperty(), ...             *)
(*   d = "pytype" c = __name__           int, str, float, bool              *)
(*   d = "class"  c = class name         a ComplexType subclass             *)
(*   d = "array"  c, item, min, max      ArrayProperty(c, min, max)         *)
(*   d = "list"   c, item                [c]                                *)
(* item says whether c names a ComplexType subclass or a python type.       *)
(***************************************************************************)
Attr(name, d, c, item, min, max) ==
    [name |-> name, d |-> d, c |-> c, item |-> item, min |-> min, max |-> max]

Prop(name, c)   == Attr(name, "prop", c, "", "", "")
PyType(name, c) == Attr(name, "pytype", c, "", "", "")
Class(name, c)  == Attr(name, "class", c, "", "", "")
ArrayProperty(name, c, item, min, max) == Attr(name, "array", c, item, min, max)
PyList(name, c, item) == Attr(name, "list", c, item, "", "")

ClassNames == {"Person", "Flag", "Item", "Team", "Match", "Box", "Club"}

ClassBody(c) ==
    CASE c = "Person" -> <<Prop("name", "String"), Prop("age", "Integer")>>
      [] c = "Flag"   -> <<Prop("on", "Boolean"), Prop("rate", "Float")>>
      [] c = "Item"   -> <<PyType("label", "str"), PyType("qty", "int"),
                           PyType("on", "bool")>>
      [] c = "Team"   -> <<ArrayProperty("members", "Person", "class", "1", "unbounded")>>
      [] c = "Match"  -> <<Class("home", "Person"), Class("away", "Person")>>
      [] c = "Box"    -> <<Class("flag", "Flag"),
                           ArrayProperty("sizes", "int", "pytype", "0", "5"),
                           PyList("tags", "str", "pytype")>>
      [] c = "Club"   -> <<Prop("members", "String"), Class("team", "Team")>>
      [] OTHER        -> <<>>

\* dir() lists attribute names sorted; these are the names of the model in
\* that order.
SortedNames ==
    <<"age", "away", "flag", "home", "label", "members", "name", "on",
      "qty", "rate", "sizes", "tags", "team", "zzz">>

RECURSIVE SelectInOrder(_, _)
SelectInOrder(names, S) ==
    IF Len(names) = 0 THEN <<>>
    ELSE (IF names[1] \in S THEN <<names[1]>> ELSE <<>>)
            \o SelectInOrder(Tail(names), S)

\* dir(x) restricted to the names found in the dictionary dct
dir(dct) == SelectInOrder(SortedNames, DOMAIN dct)

\* cls.__dict__ without the default attributes
ClassDict(c) ==
    LET body == ClassBody(c)
    IN  [nm \in {body[i].name : i \in 1..Len(body)} |->
            body[CHOOSE i \in 1..Len(body) : body[i].name = nm]]

NoAttr == Attr("", "", "", "", "", "")

findElementFromDict(dictionary, key) ==
    IF key \in DOMAIN dictionary THEN dictionary[key] ELSE NoAttr

(***************************************************************************)
(* ComplexType.__init__ and _createAttributeType                            *)
(***************************************************************************)
RECURSIVE createAttributeType(_)
RECURSIVE NewInstance(_)

createAttributeType(element) ==
    CASE element.d \in {"array", "list"} -> ListV(<<>>)
      [] element.d = "prop"   -> PropV(element.c, NoneV)
      [] element.d = "class"  -> NewInstance(element.c)
      [] element.d = "pytype" ->
            CASE element.c = "int" -> TypeV("int")
              [] element.c \in {"decimal", "double", "float"} -> TypeV("float")
              [] element.c \in {"duration", "date", "time", "datetime", "str"}
                    -> TypeV("str")
              [] element.c = "bool" -> TypeV("bool")
              [] OTHER -> NoneV
      [] OTHER -> NoneV

NewInstance(c) ==
    LET cd == ClassDict(c)
    IN  ObjV(c, [attr \in DOMAIN cd |-> createAttributeType(cd[attr])])

(***************************************************************************)
(* XML text as tokens, and ComplexType.toXML                                *)
(***************************************************************************)
Open(n)  == [t |-> "open", n |-> n, s |-> <<>>]
Close(n) == [t |-> "close", n |-> n, s |-> <<>>]
Text(s)  == [t |-> "text", n |-> "", s |-> s]

Leaf(key, s) == <<Open(key), Text(s), Close(key)>>

RECURSIVE toXML(_, _)
RECURSIVE toXMLKeys(_, _)
RECURSIVE toXMLItems(_, _)

toXMLItems(key, items) ==
    IF Len(items) = 0 THEN <<>>
    ELSE (IF items[1].k = "obj" THEN toXML(items[1], key)
          ELSE Leaf(key, PyStr(items[1])))
            \o toXMLItems(key, Tail(items))

toXMLKeys(self, keys) ==
    IF Len(keys) = 0 THEN <<>>
    ELSE LET key == keys[1]
             element == self.f[key]
         IN  (CASE element.k = "none" -> <<>>
                [] element.k = "list" -> toXMLItems(key, element.l)
                [] element.k = "prop" -> Leaf(key, PyStr(element.l[1]))
                [] element.k = "obj"  -> toXML(element, key)
                [] OTHER              -> Leaf(key, PyStr(element)))
                \o toXMLKeys(self, Tail(keys))

toXML(self, nameroot) ==
    <<Open(nameroot)>> \o toXMLKeys(self, dir(self.f)) \o <<Close(nameroot)>>

(***************************************************************************)
(* xml.dom.minidom: parseString over the tokens, toxml back to tokens.      *)
(* A node is an element (tag, kids) or a text node (tag "#text", text).     *)
(***************************************************************************)
Element(tag, kids) == [tag |-> tag, text |-> <<>>, kids |-> kids]
TextNode(s)        == [tag |-> "#text", text |-> s, kids |-> <<>>]
NoNode             == [tag |-> "#error", text |-> <<>>, kids |-> <<>>]

\* text that a parser does not read as character data
HasMarkup(s) == \E i \in 1..Len(s) : s[i] \in {"<", "&"}

ParseFail == [ok |-> FALSE, kids |-> <<>>, pos |-> 0]

\* the nodes that start at token i, up to the first unmatched close tag
RECURSIVE ParseNodes(_, _)
ParseNodes(toks, i) ==
    IF i > Len(toks) THEN [ok |-> TRUE, kids |-> <<>>, pos |-> i]
    ELSE LET tk == toks[i]
         IN  CASE tk.t = "close" -> [ok |-> TRUE, kids |-> <<>>, pos |-> i]
               [] tk.t = "text" ->
                    IF HasMarkup(tk.s) THEN ParseFail
                    ELSE LET r == ParseNodes(toks, i + 1)
                         IN  IF ~r.ok THEN ParseFail
                             ELSE [ok |-> TRUE,
                                   kids |-> (IF Len(tk.s) = 0 THEN <<>>
                                             ELSE <<TextNode(tk.s)>>) \o r.kids,
                                   pos |-> r.pos]
               [] OTHER ->
                    LET inner == ParseNodes(toks, i + 1)
                    IN  IF ~inner.ok \/ inner.pos > Len(toks) THEN ParseFail
                        ELSE IF toks[inner.pos].n # tk.n THEN ParseFail
                        ELSE LET r == ParseNodes(toks, inner.pos + 1)
                             IN  IF ~r.ok THEN ParseFail
                                 ELSE [ok |-> TRUE,
                                       kids |-> <<Element(tk.n, inner.kids)>> \o r.kids,
                                       pos |-> r.pos]

\* well-formed: the tokens are exactly one element
WellFormed(toks) ==
    LET r == ParseNodes(toks, 1)
    IN  r.ok /\ r.pos = Len(toks) + 1 /\ Len(r.kids) = 1 /\ r.kids[1].tag # "#text"

\* parseString(xmldoc).documentElement, NoNode on an ExpatError
parseString(toks) ==
    IF WellFormed(toks) THEN ParseNodes(toks, 1).kids[1] ELSE NoNode

RECURSIVE toxml(_)
RECURSIVE toxmlKids(_)
toxmlKids(kids) ==
    IF Len(kids) = 0 THEN <<>> ELSE toxml(kids[1]) \o toxmlKids(Tail(kids))

toxml(node) ==
    IF node.tag = "#text" THEN <<Text(node.text)>>
    ELSE <<Open(node.tag)>> \o toxmlKids(node.kids) \o <<Close(node.tag)>>

\* getElementsByTagName: the elements named name, in document order
RECURSIVE getElementsByTagName(_, _)
RECURSIVE getElementsInKids(_, _)
getElementsInKids(kids, name) ==
    IF Len(kids) = 0 THEN <<>>
    ELSE getElementsByTagName(kids[1], name) \o getElementsInKids(Tail(kids), name)

getElementsByTagName(node, name) ==
    IF node.tag = "#text" THEN <<>>
    ELSE (IF node.tag = name THEN <<node>> ELSE <<>>)
            \o getElementsInKids(node.kids, name)

\* the child nodes of elems[0] that are elements
genattr(elems) ==
    SelectSeq(elems[1].kids, LAMBDA e : e.tag # "#text")

(***************************************************************************)
(* Scalar types: tornadows.xmltypes (element declaration, genType),         *)
(* createPythonType2XMLType and convert.                                    *)
(***************************************************************************)
\* the XSD name of a property type
xsdNameOf(kind) ==
    CASE kind = "Integer"  -> "integer"
      [] kind = "Decimal"  -> "decimal"
      [] kind = "Double"   -> "double"
      [] kind = "Float"    -> "float"
      [] kind = "Duration" -> "duration"
      [] kind = "Date"     -> "date"
      [] kind = "Time"     -> "time"
      [] kind = "DateTime" -> "datetime"
      [] kind = "String"   -> "string"
      [] kind = "Boolean"  -> "boolean"
      [] OTHER             -> "None"

createPythonType2XMLType(pyType) ==
    CASE pyType = "int"      -> "integer"
      [] pyType = "decimal"  -> "decimal"
      [] pyType = "double"   -> "float"
      [] pyType = "float"    -> "float"
      [] pyType = "duration" -> "duration"
      [] pyType = "date"     -> "date"
      [] pyType = "time"     -> "time"
      [] pyType = "datetime" -> "datetime"
      [] pyType = "str"      -> "string"
      [] pyType = "boolean"  -> "boolean"
      [] OTHER               -> "None"

convert(typeelement, value) ==
    CASE typeelement = <<"xsd", "integer">> -> PyInt(value)
      [] typeelement = <<"xsd", "decimal">> -> PyFloat(value)
      [] typeelement = <<"xsd", "double">>  -> PyFloat(value)
      [] typeelement = <<"xsd", "float">>   -> PyFloat(value)
      [] typeelement[1] = "xsd" /\ typeelement[2] \in
            {"duration", "date", "time", "datetime", "string", "boolean"}
                                            -> StrV(value)
      [] OTHER                              -> NoneV

\* coerce(kind, text) of the scalar type registry
coerce(kind, text) ==
    LET r == CASE kind = "Integer" -> PyInt(text)
               [] kind \in {"Decimal", "Double", "Float"} -> PyFloat(text)
               [] kind = "Boolean" ->
                    IF text = <<"t", "r", "u", "e">> THEN BoolV(TRUE)
                    ELSE IF text = <<"f", "a", "l", "s", "e">> THEN BoolV(FALSE)
                    ELSE Raised("TypeCoercionError")
               [] OTHER -> StrV(text)
    IN  IF IsRaised(r) THEN Raised("TypeCoercionError") ELSE r

\* xmltypes.<kind>.genType(value)
genType(kind, value) == coerce(kind, PyStr(value))

createProperty(typ, value) ==
    LET v == genType(typ.c, value)
    IN  IF IsRaised(v) THEN v ELSE PropV(typ.c, v)

(***************************************************************************)
(* ComplexType.toXSD and _generateXSD.  The schema text is the sequence of  *)
(* its fragments in the order written: complexType fragments (each with the *)
(* elements of its sequence) and top-level element declarations.  A type    *)
(* reference is <<prefix, local name>>; an attribute not written is "".     *)
(***************************************************************************)
XsdElement(name, type, min, max) ==
    [tag |-> "element", name |-> name, type |-> type, min |-> min, max |-> max,
     elems |-> <<>>]

XsdComplexType(name, elems) ==
    [tag |-> "complexType", name |-> name, type |-> <<"", "">>, min |-> "",
     max |-> "", elems |-> elems]

\* Property.type.createElement(name)
createElement(kind, name) == XsdElement(name, <<"xsd", xsdNameOf(kind)>>, "", "")

\* the element written for attribute key
generateXSDElement(key, element) ==
    CASE element.d = "prop"  -> createElement(element.c, key)
      [] element.d = "class" -> XsdElement(key, <<"tns", element.c>>, "", "")
      [] element.d \in {"array", "list"} ->
            IF element.item = "class"
            THEN XsdElement(key, <<"tns", element.c>>, "", "unbounded")
            ELSE XsdElement(key, <<"xsd", createPythonType2XMLType(element.c)>>,
                            "", "unbounded")
      [] OTHER -> XsdElement(key, <<"xsd", createPythonType2XMLType(element.c)>>, "", "")

RefersToClass(element) ==
    element.d = "class" \/ (element.d \in {"array", "list"} /\ element.item = "class")

RECURSIVE generateXSD(_)
RECURSIVE generateXSDNested(_, _)

\* the list complextype: one entry for every attribute that refers to a class
generateXSDNested(cd, keys) ==
    IF Len(keys) = 0 THEN <<>>
    ELSE (IF RefersToClass(cd[keys[1]]) THEN generateXSD(cd[keys[1]].c) ELSE <<>>)
            \o generateXSDNested(cd, Tail(keys))

generateXSD(c) ==
    LET cd == ClassDict(c)
        keys == dir(cd)
    IN  <<XsdComplexType(c, [i \in 1..Len(keys) |-> generateXSDElement(keys[i], cd[keys[i]])])>>
            \o generateXSDNested(cd, keys)

toXSD(c) == generateXSD(c) \o <<XsdElement(c, <<"tns", c>>, "", "")>>

\* ArrayProperty.toXSD: the element that carries the bounds of the descriptor
ArrayPropertyToXSD(element, nameelement) ==
    toXSD(element.c)
        \o <<XsdElement(nameelement, <<"tns", element.c>>, element.min,
                        IF element.max = "None" THEN "" ELSE element.max)>>

(***************************************************************************)
(* xml2object and its steps                                                 *)
(***************************************************************************)
PrimitiveTypes ==
    {"integer", "decimal", "double", "float", "duration", "date", "time",
     "datetime", "string", "boolean"}

\* every xsd:element of the schema, in document order
RECURSIVE XsdElements(_)
XsdElements(frags) ==
    IF Len(frags) = 0 THEN <<>>
    ELSE (IF frags[1].tag = "element" THEN <<frags[1]>> ELSE frags[1].elems)
            \o XsdElements(Tail(frags))

xsd2dict(frags) ==
    LET elems == XsdElements(frags)
        last(nm) == elems[CHOOSE i \in 1..Len(elems) :
                        /\ elems[i].name = nm
                        /\ \A j \in (i + 1)..Len(elems) : elems[j].name # nm]
    IN  [nm \in {elems[i].name : i \in 1..Len(elems)} |->
            [val |-> IF last(nm).type[1] = "xsd" /\ last(nm).type[2] \in PrimitiveTypes
                     THEN "element" ELSE "complexType",
             typ |-> last(nm).type]]

cls2dict(complex) == ClassDict(complex)

RECURSIVE xml2list(_, _, _)
RECURSIVE xml2listAttrs(_, _)

\* the loop over attrs; the result is the list lst or the exception raised
xml2listAttrs(attrs, types) ==
    IF Len(attrs) = 0 THEN ListV(<<>>)
    ELSE LET a == attrs[1]
             item == IF a.tag \notin DOMAIN types THEN Raised("KeyError")
                     ELSE IF types[a.tag].val \in {"complexType", "list"}
                          THEN xml2list(toxml(a), a.tag, types)
                     ELSE IF Len(a.kids) = 0 THEN Raised("IndexError")
                     ELSE convert(types[a.tag].typ,
                                  IF a.kids[1].tag = "#text" THEN a.kids[1].text
                                  ELSE PyStr(NoneV))
         IN  IF IsRaised(item) THEN item
             ELSE LET rest == xml2listAttrs(Tail(attrs), types)
                  IN  IF IsRaised(rest) THEN rest
                      ELSE ListV(<<PairV(a.tag, item)>> \o rest.l)

xml2list(xmldoc, name, types) ==
    LET x == parseString(xmldoc)
    IN  IF x = NoNode THEN Raised("ExpatError")
        ELSE LET c == getElementsByTagName(x, name)
             IN  IF Len(c) = 0 THEN Raised("IndexError")
                 ELSE xml2listAttrs(genattr(c), types)

Put(dct, name, v) ==
    [nm \in (DOMAIN dct) \cup {name} |-> IF nm = name THEN v ELSE dct[nm]]

RECURSIVE generateOBJ(_, _, _)
RECURSIVE generateOBJLoop(_, _, _, _)

\* the loop over d: the dictionary dct and the list lst it leaves, or the
\* exception raised.  Every dct entry assigned lst is that one list.
generateOBJLoop(d, dct, lst, types) ==
    IF Len(d) = 0 THEN [exc |-> NoneV, dct |-> dct, lst |-> lst]
    ELSE LET name == d[1].c
             value == d[1].l[1]
         IN  IF value.k = "list"
             THEN LET o == generateOBJ(value.l, name, types)
                  IN  IF IsRaised(o) THEN [exc |-> o, dct |-> dct, lst |-> lst]
                      ELSE generateOBJLoop(Tail(d), Put(dct, name, LstRef),
                                           Append(lst, o), types)
             ELSE LET typ == findElementFromDict(types, name)
                      v == IF typ.d = "prop" THEN createProperty(typ, value) ELSE value
                  IN  IF IsRaised(v) THEN [exc |-> v, dct |-> dct, lst |-> lst]
                      ELSE generateOBJLoop(Tail(d), Put(dct, name, v), lst, types)

generateOBJ(d, namecls, types) ==
    LET r == generateOBJLoop(d, NoAttrs, <<>>, types)
    IN  IF IsRaised(r.exc) THEN r.exc
        ELSE ObjV(namecls, [nm \in DOMAIN r.dct |->
                                IF r.dct[nm] = LstRef THEN ListV(r.lst) ELSE r.dct[nm]])

xml2object(xmldoc, schema, complex) ==
    LET namecls == complex
        types == xsd2dict(schema)
        lst == xml2list(xmldoc, namecls, types)
        tps == cls2dict(complex)
    IN  IF IsRaised(lst) THEN lst ELSE generateOBJ(lst.l, namecls, tps)

(***************************************************************************)
(* The state machine: one record type under test (cls), one instance of it  *)
(* (obj) that the application constructs and fills, the schema text (xsd),  *)
(* the document (xml) that toXML returns and that a client may alter before *)
(* it is handed to xml2object (tampered says how), the value xml2object     *)
(* returns or the exception it raises (res), and the last scalar that was   *)
(* written as element text and read back (conv).                            *)
(***************************************************************************)
Unset == Mk("unset", "", 0, <<>>, NoAttrs, <<>>)

NoTamper == [kind |-> "no", name |-> ""]

\* None, where a shape is expected
NoShape == [k |-> "none", c |-> "", l |-> <<>>, d |-> NoAttrs]

\* no operation was declared
NoOp == [operation |-> "", args |-> Unset, input |-> NoShape, output |-> NoShape,
         inputArray |-> FALSE, outputArray |-> FALSE]

\* no request body was received
NoRequest == [kind |-> "none", root |-> <<>>]

StrValues   == {<<>>, <<"S", "t", "e", "v", "e">>}
IntValues   == {0, 0 - 5, 38}
FloatValues == {15, 0 - 5, 20}

\* the values an attribute of the given property type or python type takes
ValuesOf(c) ==
    CASE c \in {"Integer", "int"} -> {IntV(n) : n \in IntValues}
      [] c \in {"Decimal", "Double", "Float", "decimal", "double", "float"}
            -> {FloatV(n) : n \in FloatValues}
      [] c \in {"Boolean", "bool"} -> {BoolV(TRUE), BoolV(FALSE)}
      [] OTHER -> {StrV(t) : t \in StrValues}

\* the values of the scalar that an element of the given XSD type carries
ValuesOfXsd(local) ==
    CASE local = "integer" -> ValuesOf("Integer")
      [] local \in {"decimal", "double", "float"} -> ValuesOf("Float")
      [] local = "boolean" -> ValuesOf("Boolean")
      [] OTHER -> ValuesOf("String")

\* p.key.value = v for a Property, p.key = v for a python type
WithValue(o, key, element, v) ==
    [o EXCEPT !.f[key] = IF element.d = "prop" THEN PropV(element.c, v) ELSE v]

IsScalarAttr(element) == element.d \in {"prop", "pytype"}

\* the instances of class c with every scalar attribute assigned
Populated(c) ==
    LET cd == ClassDict(c)
        F == [DOMAIN cd -> UNION {ValuesOf(cd[k].c) : k \in DOMAIN cd}]
    IN  {ObjV(c, [k \in DOMAIN cd |->
                    IF cd[k].d = "prop" THEN PropV(cd[k].c, g[k]) ELSE g[k]]) :
            g \in {h \in F : \A k \in DOMAIN cd : h[k] \in ValuesOf(cd[k].c)}}

\* the names of the python types a declaration uses
PyTypeNames ==
    {"int", "decimal", "double", "float", "duration", "date", "time",
     "datetime", "str", "bool"}

NoMap == [py |-> "", xml |-> "", val |-> ""]

\* nothing was asked of the web service handler
SvcIdle ==
    /\ op = NoOp
    /\ wsdl = Unset
    /\ reqbody = NoRequest
    /\ request = Unset
    /\ response = Unset
    /\ written = <<>>
    /\ call = Unset
    /\ fault = Unset

\* no object was allocated
HeapIdle ==
    /\ heap = <<>>
    /\ inst = <<>>
    /\ solo = <<>>
    /\ out = <<>>

Init ==
    /\ cls \in ClassNames
    /\ obj = Unset
    /\ xml = <<>>
    /\ tampered = NoTamper
    /\ xsd = <<>>
    /\ res = Unset
    /\ conv = Unset
    /\ mapped = NoMap
    /\ SvcIdle
    /\ HeapIdle

\* x = cls()
New ==
    /\ obj = Unset
    /\ conv = Unset
    /\ mapped = NoMap
    /\ obj' = NewInstance(cls)
    /\ UNCHANGED <<cls, xml, tampered, xsd, res, conv, mapped, svcvars, heapvars>>

\* x.key.value = v, x.key = v
Assign ==
    /\ obj # Unset
    /\ xml = <<>>
    /\ \E key \in DOMAIN ClassDict(cls) :
         /\ IsScalarAttr(ClassDict(cls)[key])
         /\ \E v \in ValuesOf(ClassDict(cls)[key].c) :
              obj' = WithValue(obj, key, ClassDict(cls)[key], v)
    /\ UNCHANGED <<cls, xml, tampered, xsd, res, conv, mapped, svcvars, heapvars>>

\* x.key.sub.value = v
AssignNested ==
    /\ obj # Unset
    /\ xml = <<>>
    /\ \E key \in DOMAIN ClassDict(cls) :
         /\ ClassDict(cls)[key].d = "class"
         /\ LET inner == ClassDict(ClassDict(cls)[key].c)
            IN  \E sub \in DOMAIN inner :
                  /\ IsScalarAttr(inner[sub])
                  /\ \E v \in ValuesOf(inner[sub].c) :
                       obj' = [obj EXCEPT !.f[key] = WithValue(@, sub, inner[sub], v)]
    /\ UNCHANGED <<cls, xml, tampered, xsd, res, conv, mapped, svcvars, heapvars>>

\* x.key.append(item)
AppendItem ==
    /\ obj # Unset
    /\ xml = <<>>
    /\ \E key \in DOMAIN ClassDict(cls) :
         LET element == ClassDict(cls)[key]
         IN  /\ element.d \in {"array", "list"}
             /\ Len(obj.f[key].l) < MaxItems
             /\ \E item \in (IF element.item = "class" THEN Populated(element.c)
                             ELSE ValuesOf(element.c)) :
                  obj' = [obj EXCEPT !.f[key].l = Append(@, item)]
    /\ UNCHANGED <<cls, xml, tampered, xsd, res, conv, mapped, svcvars, heapvars>>

\* xml = x.toXML()
ToXML ==
    /\ obj # Unset
    /\ xml = <<>>
    /\ xml' = toXML(obj, cls)
    /\ UNCHANGED <<cls, obj, tampered, xsd, res, conv, mapped, svcvars, heapvars>>

\* xsd = cls.toXSD()
ToXSD ==
    /\ xsd = <<>>
    /\ conv = Unset
    /\ mapped = NoMap
    /\ xsd' = toXSD(cls)
    /\ UNCHANGED <<cls, obj, xml, tampered, res, conv, mapped, svcvars, heapvars>>

BadText == <<"x">>
AddedText == <<"7">>
AddedNames == {"age", "on", "zzz"}

\* number of elements open just before token i
RECURSIVE Depth(_, _)
Depth(toks, i) ==
    IF i <= 1 THEN 0
    ELSE Depth(toks, i - 1)
            + (CASE toks[i - 1].t = "open" -> 1
                 [] toks[i - 1].t = "close" -> 0 - 1
                 [] OTHER -> 0)

\* the close tag of the element opened at token i
MatchingClose(toks, i) ==
    CHOOSE j \in (i + 1)..Len(toks) :
        /\ toks[j].t = "close"
        /\ Depth(toks, j) = Depth(toks, i) + 1
        /\ \A m \in (i + 1)..(j - 1) :
             ~(toks[m].t = "close" /\ Depth(toks, m) = Depth(toks, i) + 1)

\* a client puts other text into an element of the document
SetText ==
    /\ xml # <<>>
    /\ tampered = NoTamper
    /\ res = Unset
    /\ \E i \in 1..Len(xml) :
         /\ xml[i].t = "text"
         /\ xml' = [xml EXCEPT ![i].s = BadText]
         /\ tampered' = [kind |-> "text", name |-> xml[i - 1].n]
    /\ UNCHANGED <<cls, obj, xsd, res, conv, mapped, svcvars, heapvars>>

\* a client leaves out one child element of the root
DropChild ==
    /\ xml # <<>>
    /\ tampered = NoTamper
    /\ res = Unset
    /\ \E i \in 1..Len(xml) :
         /\ xml[i].t = "open"
         /\ Depth(xml, i) = 1
         /\ xml' = SubSeq(xml, 1, i - 1)
                      \o SubSeq(xml, MatchingClose(xml, i) + 1, Len(xml))
         /\ tampered' = [kind |-> "drop", name |-> xml[i].n]
    /\ UNCHANGED <<cls, obj, xsd, res, conv, mapped, svcvars, heapvars>>

\* a client adds a child element to the root
AddChild ==
    /\ xml # <<>>
    /\ tampered = NoTamper
    /\ res = Unset
    /\ \E name \in AddedNames :
         /\ xml' = SubSeq(xml, 1, Len(xml) - 1) \o Leaf(name, AddedText)
                      \o <<xml[Len(xml)]>>
         /\ tampered' = [kind |-> "add", name |-> name]
    /\ UNCHANGED <<cls, obj, xsd, res, conv, mapped, svcvars, heapvars>>

\* res = xml2object(xml, xsd, cls)
Xml2Object ==
    /\ xml # <<>>
    /\ xsd # <<>>
    /\ res = Unset
    /\ res' = xml2object(xml, xsd, cls)
    /\ UNCHANGED <<cls, obj, xml, tampered, xsd, conv, mapped, svcvars, heapvars>>

\* the leaf branch of xml2list on the element <v>text</v>
LeafValue(typxml, text) ==
    LET x == parseString(Leaf("v", text))
    IN  IF x = NoNode THEN Raised("ExpatError")
        ELSE IF Len(x.kids) = 0 THEN Raised("IndexError")
        ELSE convert(typxml, x.kids[1].text)

\* a scalar v is written as toXML writes it and read back as xml2list does
Convert ==
    /\ obj = Unset
    /\ xsd = <<>>
    /\ mapped = NoMap
    /\ \E local \in PrimitiveTypes :
         \E v \in ValuesOfXsd(local) :
            conv' = Mk("conv", local, 0, <<>>, NoAttrs,
                       <<v, LeafValue(<<"xsd", local>>, PyStr(v))>>)
    /\ UNCHANGED <<cls, obj, xml, tampered, xsd, res, mapped, svcvars, heapvars>>

\* the schema type of an attribute declared with the python type pyType,
\* and what the schema index makes of an element of that type
MapType ==
    /\ obj = Unset
    /\ xsd = <<>>
    /\ conv = Unset
    /\ \E pyType \in PyTypeNames :
         mapped' = [py |-> pyType,
                    xml |-> createPythonType2XMLType(pyType),
                    val |-> xsd2dict(<<generateXSDElement("v", PyType("v", pyType))>>)["v"].val]
    /\ UNCHANGED <<cls, obj, xml, tampered, xsd, res, conv, svcvars, heapvars>>

Next ==
    \/ New
    \/ Assign
    \/ AssignNested
    \/ AppendItem
    \/ ToXML
    \/ ToXSD
    \/ SetText
    \/ DropChild
    \/ AddChild
    \/ Xml2Object
    \/ Convert
    \/ MapType

Spec == Init /\ [][Next]_vars

(***************************************************************************)
(* The declaration of an operation: webservice(_params=..., _returns=...)   *)
(***************************************************************************)
\* the shapes _params and _returns take: a ComplexType subclass, a primitive
\* type of xmltypes, an xmltypes.Array instance, a list of primitive types,
\* a dictionary from argument name to shape, a class that is none of these
ComplexT(c)  == [k |-> "complex", c |-> c, l |-> <<>>, d |-> NoAttrs]
Primitive(c) == [k |-> "prim", c |-> c, l |-> <<>>, d |-> NoAttrs]
ArrayOf(c)   == [k |-> "array", c |-> c, l |-> <<>>, d |-> NoAttrs]
ListOf(l)    == [k |-> "list", c |-> "", l |-> l, d |-> NoAttrs]
DictOf(d)    == [k |-> "dict", c |-> "", l |-> <<>>, d |-> d]
OtherClass   == [k |-> "other", c |-> "Other", l |-> <<>>, d |-> NoAttrs]

\* issubclass(shape, xmltypes.PrimitiveType), TypeError when shape is no class
IsClass(shape) == shape.k \in {"complex", "prim", "other"}

\* the position of arg among the arguments of the function
IndexOf(fargs, arg) == CHOOSE i \in 1..Len(fargs) : fargs[i] = arg

\* the attributes the decorator leaves on the operation; kw says whether
\* keyword parameters were given, fargs are the arguments of f after self
webservice(kw, params, returns, fargs) ==
    LET names == {fargs[i] : i \in 1..Len(fargs)}
    IN  [operation   |-> "getData",
         args        |-> IF kw THEN ListV(fargs) ELSE NoneV,
         input       |-> IF ~kw THEN NoShape
                         ELSE IF params.k = "complex" THEN params
                         ELSE IF params.k = "list"
                              THEN DictOf([arg \in names |-> params.l[IndexOf(fargs, arg)]])
                         ELSE DictOf([arg \in names |-> params]),
         output      |-> IF kw /\ returns.k \in {"array", "list", "prim", "complex"}
                         THEN returns ELSE NoShape,
         inputArray  |-> kw /\ params.k = "array",
         outputArray |-> kw /\ returns.k = "array"]

(***************************************************************************)
(* wsdl.Wsdl                                                                *)
(***************************************************************************)
\* a str object that holds a name, or None
NameV(s) == Mk("name", s, 0, <<>>, NoAttrs, <<>>)

\* '%s' % name
Format(name) == IF name.k = "none" THEN "None" ELSE name.c

\* b'...%s...' % name: bytes formatting takes bytes-like arguments, a str
\* argument raises TypeError
BytesMod(result, name) ==
    IF name \in STRING THEN Raised("TypeError") ELSE result

\* 'value%s' % idx
ValueName(idx) == "value" \o ToString(idx)

\* xmltypes.Array.createType(name): the element of a repeated primitive
createType(shape, name) ==
    XsdElement(name, <<"xsd", xsdNameOf(shape.c)>>, "", "unbounded")

\* xmltypes.Array.createArray(name): the wrapper type of an array and the
\* element of that type
createArray(shape, name) ==
    ListV(<<XsdComplexType(name \o "Params", <<createType(shape, "value")>>),
            XsdElement(name, <<"tns", name \o "Params">>, "", "")>>)

\* Wsdl._createTypes
createTypes(name, elements) ==
    IF elements.k = "list"
    THEN BytesMod(ListV(<<XsdComplexType(name \o "Params",
                             [idx \in 1..Len(elements.l) |->
                                 createElement(elements.l[idx].c, ValueName(idx))]),
                          XsdElement(name, <<"tns", name \o "Params">>, "", "")>>),
                  name)
    ELSE IF ~IsClass(elements) THEN Raised("TypeError")
    ELSE IF elements.k = "prim" THEN ListV(<<createElement(elements.c, name)>>)
    ELSE Raised("TypeError")

\* the elements of the named arguments, in the order of arguments
RECURSIVE ArgumentElements(_, _)
ArgumentElements(arguments, elements) ==
    IF Len(arguments) = 0 THEN <<>>
    ELSE LET e == arguments[1]
         IN  (IF elements.d[e].k = "array" THEN <<createType(elements.d[e], e)>>
              ELSE IF elements.d[e].k = "prim" THEN <<createElement(elements.d[e].c, e)>>
              ELSE <<>>)
                \o ArgumentElements(Tail(arguments), elements)

\* Wsdl._createComplexTypes
createComplexTypes(name, arguments, elements) ==
    IF elements.k = "dict"
    THEN BytesMod(ListV(<<XsdComplexType(name \o "Types",
                                         ArgumentElements(arguments.l, elements)),
                          XsdElement(name, <<"tns", name \o "Types">>, "", "")>>),
                  name)
    ELSE IF ~IsClass(elements) THEN Raised("TypeError")
    ELSE IF elements.k = "prim" THEN ListV(<<createElement(elements.c, name)>>)
    ELSE Raised("TypeError")

\* Wsdl.__init__
Wsdl(nameservice, targetNamespace, arguments, elementInput, elementOutput, operation, location) ==
    [nameservice |-> nameservice, namespace |-> targetNamespace,
     arguments |-> arguments,
     elementNameInput |-> elementInput[1], elementInput |-> elementInput[2],
     elementNameOutput |-> elementOutput[1], elementOutput |-> elementOutput[2],
     operation |-> operation, location |-> location]

\* the name and the list of schema fragments createWsdl takes for the input
WsdlInput(self) ==
    LET e == self.elementInput
        n == self.elementNameInput
    IN  IF e.k = "complex" THEN [name |-> NameV(e.c), types |-> ListV(toXSD(e.c))]
        ELSE IF e.k = "dict"
             THEN [name |-> NameV(n), types |-> createComplexTypes(n, self.arguments, e)]
        ELSE IF e.k = "array" THEN [name |-> NameV(n), types |-> createArray(e, n)]
        ELSE IF e.k = "list" THEN [name |-> NameV(n), types |-> createTypes(n, e)]
        ELSE IF ~IsClass(e) THEN [name |-> NoneV, types |-> Raised("TypeError")]
        ELSE IF e.k = "prim" THEN [name |-> NameV(n), types |-> createTypes(n, e)]
        ELSE [name |-> NoneV, types |-> ListV(<<>>)]

\* the name and the schema fragments createWsdl takes for the output
WsdlOutput(self) ==
    LET e == self.elementOutput
        n == self.elementNameOutput
    IN  IF e.k = "complex" THEN [name |-> NameV(e.c), types |-> ListV(toXSD(e.c))]
        ELSE IF e.k = "array" THEN [name |-> NameV(n), types |-> createArray(e, n)]
        ELSE IF e.k = "list" THEN [name |-> NameV(n), types |-> createTypes(n, e)]
        ELSE IF ~IsClass(e) THEN [name |-> NoneV, types |-> Raised("TypeError")]
        ELSE IF e.k = "prim" THEN [name |-> NameV(n), types |-> createTypes(n, e)]
        ELSE [name |-> NoneV, types |-> ListV(<<>>)]

\* the sections of the document, in the order they are written
SectionOrder == <<"types", "message", "message", "portType", "binding", "service">>

SoapHttpTransport == "http://schemas.xmlsoap.org/soap/http"

\* Wsdl.createWsdl: the document, or the exception raised
createWsdl(self) ==
    LET in == WsdlInput(self)
        ns == self.nameservice
    IN  IF IsRaised(in.types) THEN in.types
        ELSE LET outp == WsdlOutput(self)
             IN  IF IsRaised(outp.types) THEN outp.types
                 ELSE [k |-> "wsdl",
                       name |-> ns,
                       targetNamespace |-> self.namespace,
                       sections |-> SectionOrder,
                       types |-> in.types.l \o outp.types.l,
                       messages |->
                         <<[name |-> ns \o "Request", part |-> "parameters",
                            element |-> <<"tns", Format(in.name)>>],
                           [name |-> ns \o "Response", part |-> "parameters",
                            element |-> <<"tns", Format(outp.name)>>]>>,
                       portTypes |->
                         <<[name |-> ns \o "PortType",
                            operations |->
                              <<[name |-> self.operation,
                                 input |-> <<"tns", ns \o "Request">>,
                                 output |-> <<"tns", ns \o "Response">>]>>]>>,
                       bindings |->
                         <<[name |-> ns \o "Binding",
                            type |-> <<"tns", ns \o "PortType">>,
                            style |-> "document",
                            transport |-> SoapHttpTransport,
                            operations |->
                              <<[name |-> self.operation,
                                 soapAction |-> self.location,
                                 style |-> "document",
                                 input |-> "literal",
                                 output |-> "literal"]>>]>>,
                       services |->
                         <<[name |-> ns,
                            ports |->
                              <<[name |-> ns \o "Port",
                                 binding |-> <<"tns", ns \o "Binding">>,
                                 address |-> self.location]>>]>>]

(***************************************************************************)
(* SOAP messages: elements with namespace prefixes                          *)
(***************************************************************************)
\* an element with a prefix ("" for none) and a local name, the prefixes its
\* xmlns attributes declare and the prefixes its other attributes use
NsElement(prefix, local, decl, attrs, kids) ==
    [tag |-> IF prefix = "" THEN local ELSE prefix \o ":" \o local,
     text |-> <<>>, kids |-> kids,
     prefix |-> prefix, local |-> local, decl |-> decl, attrs |-> attrs]

\* the element of a document that uses no prefix
RECURSIVE Plain(_)
Plain(node) ==
    IF node.tag = "#text" THEN node
    ELSE NsElement("", node.tag, {}, {}, [i \in 1..Len(node.kids) |-> Plain(node.kids[i])])

\* the namespace-aware parser accepts the element: every prefix the element,
\* its attributes and its descendants use is declared on it or in scope
RECURSIVE Bound(_, _)
Bound(node, scope) ==
    IF node.tag = "#text" THEN TRUE
    ELSE LET sc == scope \cup node.decl
         IN  /\ node.prefix = "" \/ node.prefix \in sc
             /\ node.attrs \subseteq sc
             /\ \A i \in 1..Len(node.kids) : Bound(node.kids[i], sc)

\* soap.SoapMessage: the elements of the header and of the body
SoapMessage(header, body) ==
    Mk("soap", "", 0, <<>>, NoAttrs, <<header, body>>)

getHeader(msg) == msg.l[1]
getBody(msg)   == msg.l[2]

\* SoapMessage.getSoap().toxml(): the envelope around header and body
getSoap(msg) == [k |-> "envelope", header |-> getHeader(msg), body |-> getBody(msg)]

\* element.setAttribute('xmlns:' + prefix, namespace)
setAttribute(element, prefix) ==
    [element EXCEPT !.decl = element.decl \cup {prefix}]

\* SoapHandler._parseXML on the child nodes of elements[0]
RECURSIVE parseXMLNodes(_)
parseXMLNodes(nodes) ==
    IF Len(nodes) = 0 THEN ListV(<<>>)
    ELSE LET element == nodes[1]
         IN  IF element.tag = "#text" THEN parseXMLNodes(Tail(nodes))
             ELSE LET e == IF element.prefix # "" THEN setAttribute(element, element.prefix)
                           ELSE element
                  IN  IF ~Bound(e, {}) THEN Raised("ExpatError")
                      ELSE LET rest == parseXMLNodes(Tail(nodes))
                           IN  IF IsRaised(rest) THEN rest
                               ELSE ListV(<<e>> \o rest.l)

\* SoapHandler._parseXML
parseXML(elements) ==
    IF Len(elements) <= 0 THEN ListV(<<>>)
    ELSE IF Len(elements[1].kids) <= 0 THEN ListV(<<>>)
    ELSE parseXMLNodes(elements[1].kids)

\* SoapHandler._parseSoap: the SoapMessage, or the exception raised
parseSoap(xmldoc) ==
    IF xmldoc.kind # "soap" \/ ~Bound(xmldoc.root, {}) THEN Raised("ExpatError")
    ELSE LET document == xmldoc.root
             prefix == document.prefix
             header == IF prefix # "" THEN getElementsByTagName(document, prefix \o ":Header")
                       ELSE getElementsByTagName(document, "Header")
             body == IF prefix # "" THEN getElementsByTagName(document, prefix \o ":Body")
                     ELSE getElementsByTagName(document, "Body")
             header_elements == parseXML(header)
         IN  IF IsRaised(header_elements) THEN header_elements
             ELSE LET body_elements == parseXML(body)
                  IN  IF IsRaised(body_elements) THEN body_elements
                      ELSE SoapMessage(header_elements.l, body_elements.l)

\* SoapHandler._parseComplexType
parseComplexType(complex, xmld) ==
    xml2object(toxml(xmld), toXSD(complex), complex)

\* type.genType(e.childNodes[0].nodeValue) for a primitive type or an Array
genTypeOf(type, node) ==
    IF type.k \in {"prim", "array"}
    THEN IF node.tag = "#text" THEN genType(type.c, StrV(node.text))
         ELSE Raised("TypeError")
    ELSE Raised("AttributeError")

\* SoapHandler._findValues on the elements found
RECURSIVE findValuesIn(_, _)
findValuesIn(type, elems) ==
    IF Len(elems) = 0 THEN ListV(<<>>)
    ELSE LET e == elems[1]
             v == IF Len(e.kids) > 0 THEN genTypeOf(type, e.kids[1]) ELSE NoneV
         IN  IF IsRaised(v) THEN v
             ELSE LET rest == findValuesIn(type, Tail(elems))
                  IN  IF IsRaised(rest) THEN rest ELSE ListV(<<v>> \o rest.l)

\* SoapHandler._findValues
findValues(name, type, xmld) ==
    findValuesIn(type, getElementsByTagName(xmld, name))

\* the loop of SoapHandler._parseParams over the argument names
RECURSIVE parseParamsLoop(_, _, _)
parseParamsLoop(elements, types, args) ==
    IF Len(args) = 0 THEN ListV(<<>>)
    ELSE LET tagname == args[1]
             values == findValues(tagname, types.d[tagname], elements)
         IN  IF IsRaised(values) THEN values
             ELSE LET rest == parseParamsLoop(elements, types, Tail(args))
                  IN  IF IsRaised(rest) THEN rest ELSE ListV(values.l \o rest.l)

\* SoapHandler._parseParams
parseParams(elements, types, args) ==
    IF args.k = "none" THEN Raised("TypeError")
    ELSE parseParamsLoop(elements, types, args.l)

\* the values the operation was called with
Called(args) == Mk("call", "", 0, <<>>, NoAttrs, args)

\* what the function of the operation returns: a value of the shape it
\* declares to return, None when it declares none
ReturnValue(shape) ==
    CASE shape.k = "complex" -> CHOOSE o \in Populated(shape.c) : TRUE
      [] shape.k = "prim"    -> CHOOSE v \in ValuesOf(shape.c) : TRUE
      [] shape.k = "array"   -> ListV(<<CHOOSE v \in ValuesOf(shape.c) : TRUE>>)
      [] shape.k = "list"    ->
           ListV([i \in 1..Len(shape.l) |-> CHOOSE v \in ValuesOf(shape.l[i].c) : TRUE])
      [] OTHER               -> NoneV

\* the elements of a list result: <value> for an array, <value%d> otherwise
RECURSIVE ReturnItems(_, _, _)
ReturnItems(result, i, is_array) ==
    IF i > Len(result) THEN <<>>
    ELSE Leaf(IF is_array THEN "value" ELSE ValueName(i), PyStr(result[i]))
            \o ReturnItems(result, i + 1, is_array)

\* parseString of the text of a response, ExpatError when it does not parse
ParsedResponse(toks) ==
    IF WellFormed(toks) THEN SoapMessage(<<>>, <<Plain(parseString(toks))>>)
    ELSE Raised("ExpatError")

\* SoapHandler._createReturnsComplexType
createReturnsComplexType(result) ==
    IF result.k # "obj" THEN Raised("AttributeError")
    ELSE ParsedResponse(toXML(result, result.c))

\* SoapHandler._createReturns
createReturns(result, is_array) ==
    IF result.k = "list"
    THEN ParsedResponse(<<Open("returns")>> \o ReturnItems(result.l, 1, is_array)
                            \o <<Close("returns")>>)
    ELSE ParsedResponse(Leaf("returns", PyStr(result)))

\* soapfault(faultstring)
soapfault(faultstring) ==
    SoapMessage(<<>>,
        <<NsElement("soapenv", "Fault", {"soapenv"}, {},
            <<NsElement("", "faultcode", {}, {}, <<>>),
              NsElement("", "faultstring", {}, {}, <<TextNode(faultstring)>>)>>)>>)

\* the state SoapHandler.post leaves when the exception detail was caught:
\* the fault is built and nothing is written
Caught(req, called, detail) ==
    [request |-> req, response |-> Unset, written |-> <<>>, call |-> called,
     fault |-> soapfault(<<"Error in web service : ", detail.c>>)]

\* the end of SoapHandler.post once the operation has returned
Respond(operation, req, called) ==
    LET result == ReturnValue(operation.output)
        is_array == operation.outputArray
        resp == IF operation.output.k = "complex" THEN createReturnsComplexType(result)
                ELSE createReturns(result, is_array)
    IN  IF IsRaised(resp) THEN Caught(req, called, resp)
        ELSE [request |-> req, response |-> resp, written |-> <<getSoap(resp)>>,
              call |-> called, fault |-> Unset]

\* SoapHandler.post for the one operation of the handler
post(operation, body) ==
    LET req == parseSoap(body)
    IN  IF IsRaised(req) THEN Caught(Unset, Unset, req)
        ELSE LET typesinput == operation.input
                 args == operation.args
             IN  IF Len(getBody(req)) = 0 THEN Caught(req, Unset, Raised("IndexError"))
                 ELSE IF typesinput.k = "complex"
                 THEN LET o == parseComplexType(typesinput.c, getBody(req)[1])
                      IN  IF IsRaised(o) THEN Caught(req, Unset, o)
                          ELSE Respond(operation, req, Called(<<o>>))
                 ELSE LET params == parseParams(getBody(req)[1], typesinput, args)
                      IN  IF IsRaised(params) THEN Caught(req, Unset, params)
                          ELSE IF operation.inputArray
                               THEN Respond(operation, req, Called(<<params>>))
                          ELSE IF Len(params.l) # Len(args.l)
                               THEN Caught(req, Unset, Raised("TypeError"))
                          ELSE Respond(operation, req, Called(params.l))

(***************************************************************************)
(* The web service: one handler with one operation, asked for its WSDL      *)
(* (get) and sent one SOAP request (post).                                  *)
(***************************************************************************)
\* the most elements a request holds under the element of the operation
MaxArgs == 2

PrimitiveList == ListOf(<<Primitive("Integer"), Primitive("String")>>)

\* _params with the arguments of the decorated function
ParamDecls ==
    {<<ComplexT("Person"), <<"person">>>>,
     <<PrimitiveList, <<"a", "b">>>>,
     <<Primitive("Integer"), <<"a">>>>,
     <<ArrayOf("Integer"), <<"a">>>>,
     <<OtherClass, <<"a">>>>}

\* _returns
ReturnDecls ==
    {ComplexT("Person"), Primitive("Integer"), PrimitiveList, ArrayOf("String"),
     OtherClass}

\* the operations a handler declares
Operations ==
    {webservice(TRUE, p[1], r, p[2]) : p \in ParamDecls, r \in ReturnDecls}
        \cup {webservice(FALSE, NoShape, NoShape, <<"a">>)}

ServiceName == "DataService"
Location    == "http://localhost:8080/DataService"
TargetNs    == "http://localhost:8080/DataService/getData"

\* the elements a client writes under the element of the operation
ArgPool ==
    {NsElement("", "a", {}, {}, <<TextNode(<<"7">>)>>),
     NsElement("", "a", {}, {}, <<>>),
     NsElement("", "b", {}, {}, <<TextNode(<<"x">>)>>),
     NsElement("", "a", {}, {"xsi"}, <<TextNode(<<"7">>)>>),
     NsElement("ns", "c", {}, {}, <<TextNode(<<"1">>)>>),
     NsElement("", "wrap", {}, {}, <<NsElement("", "a", {}, {}, <<TextNode(<<"3">>)>>)>>)}

ArgSeqs == UNION {[1..m -> ArgPool] : m \in 0..MaxArgs}

\* the element of the operation in the body: of a record type, or the
\* arguments by name
BodyChildren(operation) ==
    IF operation.input.k = "complex"
    THEN {Plain(parseString(toXML(o, operation.input.c))) :
            o \in Populated(operation.input.c)}
    ELSE {NsElement(form[1], "params", form[2], {}, kids) :
            form \in {<<"", {}>>, <<"ns", {}>>, <<"ns", {"ns"}>>}, kids \in ArgSeqs}

\* the envelope: its prefix, the prefixes it declares besides its own, an
\* optional header, and the children of the body
Envelope(prefix, decl, hdr, children) ==
    NsElement(prefix, "Envelope", (IF prefix = "" THEN {} ELSE {prefix}) \cup decl, {},
        (IF hdr THEN <<NsElement(prefix, "Header", {}, {},
                          <<NsElement("", "token", {}, {}, <<TextNode(<<"t">>)>>)>>)>>
         ELSE <<>>)
          \o <<NsElement(prefix, "Body", {}, {}, children)>>)

\* the request bodies a client sends: text that is no XML, an envelope with
\* an empty body, and the envelopes a namespace-aware parser accepts
Requests(operation) ==
    {[kind |-> "malformed", root |-> NoNode]}
      \cup {[kind |-> "soap", root |-> e] :
              e \in {x \in {Envelope(prefix, decl, hdr, children) :
                              prefix \in {"", "soapenv"},
                              decl \in {{}, {"ns", "xsi"}},
                              hdr \in BOOLEAN,
                              children \in {<<>>} \cup
                                  {<<c>> : c \in BodyChildren(operation)}} :
                       Bound(x, {})}}

\* no record type is under test
BaseIdle ==
    /\ cls = "Person"
    /\ obj = Unset
    /\ xml = <<>>
    /\ tampered = NoTamper
    /\ xsd = <<>>
    /\ res = Unset
    /\ conv = Unset
    /\ mapped = NoMap

InitService ==
    /\ BaseIdle
    /\ HeapIdle
    /\ op \in Operations
    /\ wsdl = Unset
    /\ reqbody = NoRequest
    /\ request = Unset
    /\ response = Unset
    /\ written = <<>>
    /\ call = Unset
    /\ fault = Unset

\* SoapHandler.get with the query ?wsdl
Get ==
    /\ op # NoOp
    /\ wsdl = Unset
    /\ wsdl' = createWsdl(Wsdl(ServiceName, TargetNs, op.args,
                               <<"params", op.input>>, <<"returns", op.output>>,
                               op.operation, Location))
    /\ UNCHANGED <<cls, obj, xml, tampered, xsd, res, conv, mapped, op, reqbody,
                   request, response, written, call, fault, heapvars>>

\* SoapHandler.post
Post ==
    /\ op # NoOp
    /\ reqbody = NoRequest
    /\ \E body \in Requests(op) :
         \E r \in {post(op, body)} :
            /\ reqbody' = body
            /\ request' = r.request
            /\ response' = r.response
            /\ written' = r.written
            /\ call' = r.call
            /\ fault' = r.fault
    /\ UNCHANGED <<cls, obj, xml, tampered, xsd, res, conv, mapped, op, wsdl, heapvars>>

NextService ==
    \/ Get
    \/ Post

SpecService == InitService /\ [][NextService]_vars

(***************************************************************************)
(* Objects with identity: the heap holds the objects of the class           *)
(* declarations and of the instances; two callers construct, fill and pass  *)
(* their own instance to toXML, toXSD and xml2object in any interleaving.    *)
(* solo holds what the calls of each caller return when they run alone.     *)
(***************************************************************************)
Callers == 1..2

\* the most items a caller appends to one list
MaxAppends == 1

\* a reference to the object at address a
Ref(a) == Mk("ref", "", a, <<>>, NoAttrs, <<>>)

ClassOrder == <<"Person", "Flag", "Item", "Team", "Match", "Box", "Club">>

\* the attributes the classes declare: class and attribute name
RECURSIVE DeclsFrom(_)
DeclsFrom(classes) ==
    IF Len(classes) = 0 THEN <<>>
    ELSE [i \in 1..Len(ClassBody(classes[1])) |->
            <<classes[1], ClassBody(classes[1])[i].name>>]
           \o DeclsFrom(Tail(classes))

Declared == DeclsFrom(ClassOrder)

\* the address of the object that class c declares as attribute key
DeclAddr(c, key) == CHOOSE a \in 1..Len(Declared) : Declared[a] = <<c, key>>

\* what isinstance and issubclass tell about the declared object at address a
DeclAttr(a) == ClassDict(Declared[a][1])[Declared[a][2]]

\* the object a class body creates for an attribute
DeclObject(element) ==
    CASE element.d = "prop"              -> PropV(element.c, NoneV)
      [] element.d \in {"array", "list"} -> ListV(<<TypeV(element.c)>>)
      [] OTHER                           -> TypeV(element.c)

\* the heap once the classes are defined
ClassHeap == [a \in 1..Len(Declared) |-> DeclObject(DeclAttr(a))]

\* a new object: the heap with the object and the reference to it
Allocate(h, cell) == [heap |-> Append(h, cell), ref |-> Ref(Len(h) + 1)]

\* setattr(self, attr, typeobj)
SetAttr(h, self, attr, typeobj) ==
    [h EXCEPT ![self].f = Put(@, attr, typeobj)]

\* the names of the attributes of class c in the order of its __dict__
AttrNames(c) == [i \in 1..Len(ClassBody(c)) |-> ClassBody(c)[i].name]

RECURSIVE createAttributeTypeAt(_, _)
RECURSIVE initLoop(_, _, _, _)
RECURSIVE construct(_, _)

\* the declared object itself, where a new one is due
declaredAttributeType(h, element) == [heap |-> h, ref |-> Ref(element)]

\* ComplexType._createAttributeType on the declared object at address element
createAttributeTypeAt(h, element) ==
    LET a == DeclAttr(element)
    IN  CASE a.d \in {"array", "list"} -> Allocate(h, ListV(<<>>))
          [] a.d = "prop"  -> Allocate(h, PropV(a.c, NoneV))
          [] a.d = "class" -> construct(h, a.c)
          [] OTHER         -> [heap |-> h, ref |-> createAttributeType(a)]

\* the loop of ComplexType.__init__ over the attributes todo
initLoop(h, self, c, todo) ==
    IF Len(todo) = 0 THEN [heap |-> h, ref |-> Ref(self)]
    ELSE LET r == createAttributeTypeAt(h, DeclAddr(c, todo[1]))
         IN  initLoop(SetAttr(r.heap, self, todo[1], r.ref), self, c, Tail(todo))

\* element(): a new instance of class c
construct(h, c) ==
    LET r == Allocate(h, ObjV(c, NoAttrs))
    IN  initLoop(r.heap, r.ref.n, c, AttrNames(c))

\* the value behind a reference, with the values behind its references
RECURSIVE Deref(_, _)
Deref(h, v) ==
    CASE v.k = "ref"  -> Deref(h, h[v.n])
      [] v.k = "obj"  -> ObjV(v.c, [a \in DOMAIN v.f |-> Deref(h, v.f[a])])
      [] v.k = "list" -> ListV([i \in 1..Len(v.l) |-> Deref(h, v.l[i])])
      [] OTHER        -> v

\* the addresses of the objects reachable from v
RECURSIVE Reach(_, _)
Reach(h, v) ==
    CASE v.k = "ref"  -> {v.n} \cup Reach(h, h[v.n])
      [] v.k = "obj"  -> UNION {Reach(h, v.f[a]) : a \in DOMAIN v.f}
      [] v.k = "list" -> UNION {Reach(h, v.l[i]) : i \in 1..Len(v.l)}
      [] OTHER        -> {}

\* x.key.value = v for a Property, x.key = v for a python type
assign(h, self, key, element, v) ==
    IF element.d = "prop" THEN [h EXCEPT ![h[self].f[key].n].l = <<v>>]
    ELSE SetAttr(h, self, key, v)

\* the instance at self filled with the attribute values of o
RECURSIVE fill(_, _, _, _)
fill(h, self, o, todo) ==
    IF Len(todo) = 0 THEN h
    ELSE LET key == todo[1]
             element == ClassDict(o.c)[key]
             v == IF element.d = "prop" THEN o.f[key].l[1] ELSE o.f[key]
         IN  fill(assign(h, self, key, element, v), self, o, Tail(todo))

\* a new instance with the attribute values of o, a scalar as it is
newItem(h, o) ==
    IF o.k # "obj" THEN [heap |-> h, ref |-> o]
    ELSE LET r == construct(h, o.c)
         IN  [heap |-> fill(r.heap, r.ref.n, o, AttrNames(o.c)), ref |-> r.ref]

\* the record types the callers work on
HeapClasses == {"Person", "Item", "Team", "Club"}

\* two of the values of S
TwoOf(S) ==
    LET one == CHOOSE o \in S : TRUE
    IN  {one, CHOOSE o \in S : o # one}

\* the items a caller appends to a list
ItemsOf(element) ==
    TwoOf(IF element.item = "class" THEN Populated(element.c) ELSE ValuesOf(element.c))

NoResults == [xml |-> <<>>, xsd |-> <<>>, res |-> Unset]

InitHeap ==
    /\ cls \in HeapClasses
    /\ obj = Unset
    /\ xml = <<>>
    /\ tampered = NoTamper
    /\ xsd = <<>>
    /\ res = Unset
    /\ conv = Unset
    /\ mapped = NoMap
    /\ SvcIdle
    /\ heap = ClassHeap
    /\ inst = [i \in Callers |-> [pc |-> "idle", self |-> 0, todo |-> <<>>]]
    /\ solo = [i \in Callers |-> [obj |-> Unset, xml |-> <<>>, xsd |-> <<>>, res |-> Unset]]
    /\ out = [i \in Callers |-> NoResults]

\* x = T(): the instance exists, __init__ starts
HeapNew ==
    \E i \in Callers :
        /\ inst[i].pc = "idle"
        /\ LET r == Allocate(heap, ObjV(cls, NoAttrs))
           IN  /\ heap' = r.heap
               /\ inst' = [inst EXCEPT ![i] = [pc |-> "init", self |-> r.ref.n,
                                               todo |-> AttrNames(cls)]]
        /\ UNCHANGED <<cls, obj, xml, tampered, xsd, res, conv, mapped, svcvars, solo, out>>

\* one round of the loop of ComplexType.__init__; the constructor returns
\* after the last
HeapInit ==
    \E i \in Callers :
        /\ inst[i].pc = "init"
        /\ LET attr == inst[i].todo[1]
               r == createAttributeTypeAt(heap, DeclAddr(cls, attr))
               last == Len(inst[i].todo) = 1
           IN  /\ heap' = SetAttr(r.heap, inst[i].self, attr, r.ref)
               /\ inst' = [inst EXCEPT ![i].todo = Tail(@),
                                       ![i].pc = IF last THEN "ready" ELSE "init"]
               /\ solo' = IF last THEN [solo EXCEPT ![i].obj = NewInstance(cls)]
                          ELSE solo
        /\ UNCHANGED <<cls, obj, xml, tampered, xsd, res, conv, mapped, svcvars, out>>

\* x.key.value = v, x.key = v
HeapAssign ==
    \E i \in Callers :
        /\ inst[i].pc = "ready"
        /\ out[i].xml = <<>>
        /\ \E key \in DOMAIN ClassDict(cls) :
             /\ IsScalarAttr(ClassDict(cls)[key])
             /\ \E v \in TwoOf(ValuesOf(ClassDict(cls)[key].c)) :
                  /\ heap' = assign(heap, inst[i].self, key, ClassDict(cls)[key], v)
                  /\ solo' = [solo EXCEPT ![i].obj =
                                 WithValue(@, key, ClassDict(cls)[key], v)]
        /\ UNCHANGED <<cls, obj, xml, tampered, xsd, res, conv, mapped, svcvars, inst, out>>

\* x.key.append(item)
HeapAppend ==
    \E i \in Callers :
        /\ inst[i].pc = "ready"
        /\ out[i].xml = <<>>
        /\ \E key \in DOMAIN ClassDict(cls) :
             LET element == ClassDict(cls)[key]
                 lst == heap[inst[i].self].f[key]
             IN  /\ element.d \in {"array", "list"}
                 /\ Len(heap[lst.n].l) < MaxAppends
                 /\ \E item \in ItemsOf(element) :
                      LET r == newItem(heap, item)
                      IN  /\ heap' = [r.heap EXCEPT ![lst.n].l = Append(@, r.ref)]
                          /\ solo' = [solo EXCEPT ![i].obj.f[key].l = Append(@, item)]
        /\ UNCHANGED <<cls, obj, xml, tampered, xsd, res, conv, mapped, svcvars, inst, out>>

\* x.toXML()
HeapToXML ==
    \E i \in Callers :
        /\ inst[i].pc = "ready"
        /\ out[i].xml = <<>>
        /\ out' = [out EXCEPT ![i].xml = toXML(Deref(heap, Ref(inst[i].self)), cls)]
        /\ solo' = [solo EXCEPT ![i].xml = toXML(solo[i].obj, cls)]
        /\ UNCHANGED <<cls, obj, xml, tampered, xsd, res, conv, mapped, svcvars, heap, inst>>

\* T.toXSD()
HeapToXSD ==
    \E i \in Callers :
        /\ inst[i].pc = "ready"
        /\ out[i].xsd = <<>>
        /\ out' = [out EXCEPT ![i].xsd = toXSD(cls)]
        /\ solo' = [solo EXCEPT ![i].xsd = toXSD(cls)]
        /\ UNCHANGED <<cls, obj, xml, tampered, xsd, res, conv, mapped, svcvars, heap, inst>>

\* xml2object(xml, xsd, T) on the document the caller got from toXML
HeapXml2Object ==
    \E i \in Callers :
        /\ out[i].xml # <<>>
        /\ out[i].res = Unset
        /\ out' = [out EXCEPT ![i].res = xml2object(out[i].xml, toXSD(cls), cls)]
        /\ solo' = [solo EXCEPT ![i].res = xml2object(solo[i].xml, toXSD(cls), cls)]
        /\ UNCHANGED <<cls, obj, xml, tampered, xsd, res, conv, mapped, svcvars, heap, inst>>

NextHeap ==
    \/ HeapNew
    \/ HeapInit
    \/ HeapAssign
    \/ HeapAppend
    \/ HeapToXML
    \/ HeapToXSD
    \/ HeapXml2Object

SpecHeap == InitHeap /\ [][NextHeap]_vars

(***************************************************************************)
(* Helpers of the properties                                                *)
(***************************************************************************)
\* every scalar of the value was assigned and every list holds an item
RECURSIVE IsPopulated(_)
IsPopulated(v) ==
    CASE v.k = "obj"  -> \A g \in DOMAIN v.f : IsPopulated(v.f[g])
      [] v.k = "list" -> Len(v.l) > 0 /\ \A i \in 1..Len(v.l) : IsPopulated(v.l[i])
      [] v.k = "prop" -> IsPopulated(v.l[1])
      [] v.k \in {"none", "type", "unset"} -> FALSE
      [] OTHER -> TRUE

\* y holds the values of x: scalars equal (inside or outside a Property),
\* nested records equal field by field, lists equal item by item
RECURSIVE ValueEq(_, _)
ValueEq(x, y) ==
    CASE x.k = "obj"  -> /\ y.k = "obj"
                         /\ DOMAIN x.f = DOMAIN y.f
                         /\ \A g \in DOMAIN x.f : ValueEq(x.f[g], y.f[g])
      [] x.k = "list" -> /\ y.k = "list"
                         /\ Len(x.l) = Len(y.l)
                         /\ \A i \in 1..Len(x.l) : ValueEq(x.l[i], y.l[i])
      [] x.k = "prop" -> ValueEq(x.l[1], y)
      [] OTHER        -> IF y.k = "prop" THEN y.l[1] = x ELSE y = x

\* the child elements of the root of the document
RootChildren(toks) ==
    IF WellFormed(toks) THEN genattr(<<parseString(toks)>>) ELSE <<>>

\* the record types reachable from c
RECURSIVE Reachable(_)
Reachable(c) ==
    {c} \cup UNION {Reachable(ClassBody(c)[i].c) :
                        i \in {j \in 1..Len(ClassBody(c)) : RefersToClass(ClassBody(c)[j])}}

Count(seq, Test(_)) == Cardinality({i \in 1..Len(seq) : Test(seq[i])})

DeclIndex(c, name) ==
    CHOOSE i \in 1..Len(ClassBody(c)) : ClassBody(c)[i].name = name

\* the declaration of the attribute called name in a type reachable from c
DeclOf(c, name) ==
    LET all == UNION {{ClassBody(d)[i] : i \in 1..Len(ClassBody(d))} : d \in Reachable(c)}
    IN  IF \E a \in all : a.name = name THEN CHOOSE a \in all : a.name = name
        ELSE NoAttr

RestrictedKinds ==
    {"Integer", "Decimal", "Double", "Float", "Boolean",
     "int", "decimal", "double", "float", "bool"}

\* minOccurs and maxOccurs of a schema element; an attribute left out has
\* the XSD default 1
EffectiveMin(e) == IF e.min = "" THEN "1" ELSE e.min
EffectiveMax(e) == IF e.max = "" THEN "1" ELSE e.max

(***************************************************************************)
(* Properties                                                               *)
(***************************************************************************)
\* C1: round-trip law: for a populated instance x of record type T,
\* xml2object(x.toXML(), schema of T.toXSD(), T) returns a record whose
\* fields equal those of x: scalars equal, nested records equal
\* recursively, repeated fields equal as ordered sequences.
RoundTripLaw ==
    (res # Unset /\ tampered = NoTamper /\ IsPopulated(obj))
        => (~IsRaised(res) /\ ValueEq(obj, res))

\* C2: in the record that deserialization returns, the list stored for a
\* nested or repeated field f holds exactly the records built from the
\* sibling elements named f, in document order and with the same count, and
\* none built from a sibling of another name; a record with one repeated
\* record field of n >= 1 items comes back with the same n items in order.
RepeatedFieldsKeepItems ==
    (res # Unset /\ ~IsRaised(res))
        => /\ \A g \in DOMAIN res.f :
                res.f[g].k = "list" =>
                    LET ks == SelectSeq(RootChildren(xml), LAMBDA e : e.tag = g)
                    IN  /\ Len(res.f[g].l) = Len(ks)
                        /\ \A i \in 1..Len(ks) :
                             res.f[g].l[i] =
                                generateOBJ(xml2list(toxml(ks[i]), g, xsd2dict(xsd)).l,
                                            g, cls2dict(cls))
           /\ (cls = "Team" /\ tampered = NoTamper /\ IsPopulated(obj))
                => ValueEq(obj, res)

\* C3: scalar round-trip: a value written as element text the way toXML
\* writes it and read back the way convert reads it during deserialization
\* is the value again, for every scalar kind, 0, a negative integer, the
\* empty string and both booleans included.
ScalarRoundTrip ==
    conv # Unset => conv.l[2] = conv.l[1]

\* C4: schema validity: T.toXSD() holds exactly one complexType fragment for
\* every record type reachable from T, none missing and none repeated, and
\* exactly one top-level element declaration, that of T.
SchemaValidity ==
    xsd # <<>>
        => /\ \A c \in Reachable(cls) :
                Count(xsd, LAMBDA fr : fr.tag = "complexType" /\ fr.name = c) = 1
           /\ \A i \in 1..Len(xsd) :
                xsd[i].tag = "complexType" => xsd[i].name \in Reachable(cls)
           /\ Count(xsd, LAMBDA fr : fr.tag = "element") = 1
           /\ Count(xsd, LAMBDA fr : fr.tag = "element" /\ fr.name = cls) = 1

\* C5: declaration order is the emission order: the elements of every
\* sequence that toXSD writes, and the child elements that toXML writes,
\* come in the order in which the record type declares its fields.
DeclarationOrder ==
    /\ xsd # <<>>
        => \A i \in 1..Len(xsd) :
                xsd[i].tag = "complexType"
                    => [j \in 1..Len(xsd[i].elems) |-> xsd[i].elems[j].name]
                        = [j \in 1..Len(ClassBody(xsd[i].name)) |->
                                ClassBody(xsd[i].name)[j].name]
    /\ (xml # <<>> /\ tampered = NoTamper)
        => LET kids == RootChildren(xml)
           IN  \A i \in 1..Len(kids) : \A j \in (i + 1)..Len(kids) :
                    DeclIndex(cls, kids[i].tag) <= DeclIndex(cls, kids[j].tag)

\* C6: occurrence bounds reach the schema: the element that toXSD writes
\* for a repeated field declared with (minOccurs, maxOccurs) carries that
\* minOccurs and that maxOccurs.
OccurrenceBounds ==
    xsd # <<>>
        => \A i \in 1..Len(xsd) :
                xsd[i].tag = "complexType"
                    => \A j \in 1..Len(xsd[i].elems) :
                          LET e == xsd[i].elems[j]
                              a == ClassDict(xsd[i].name)[e.name]
                          IN  a.d = "array"
                                => /\ EffectiveMin(e) = a.min
                                   /\ EffectiveMax(e) = (IF a.max = "None" THEN "1"
                                                         ELSE a.max)

\* C7: unknown elements are rejected: when the root of the document has a
\* child element whose name is not a field that T itself declares,
\* xml2object fails and returns no record.
UnknownElementsRejected ==
    (res # Unset /\ tampered.kind = "add"
        /\ tampered.name \notin DOMAIN ClassDict(cls))
        => IsRaised(res)

\* C8: coercion failures are errors: deserializing an element whose text is
\* not a literal of the declared kind of its field (Integer, Decimal, Double,
\* Float, Boolean) fails; no record is returned that holds the text.
CoercionFailuresAreErrors ==
    (res # Unset /\ tampered.kind = "text"
        /\ DeclOf(cls, tampered.name).c \in RestrictedKinds)
        => IsRaised(res)

\* C9: missing fields are tolerated: a document that omits the element of a
\* field deserializes without error, the record has no value for that field,
\* and every field whose element is present is populated as it is from the
\* complete document.
MissingFieldsTolerated ==
    (res # Unset /\ tampered.kind = "drop")
        => LET full == xml2object(toXML(obj, cls), xsd, cls)
               left == SelectSeq(RootChildren(xml), LAMBDA e : e.tag = tampered.name)
           IN  ~IsRaised(full)
                 => /\ ~IsRaised(res)
                    /\ Len(left) = 0 => tampered.name \notin DOMAIN res.f
                    /\ \A g \in DOMAIN res.f :
                         g # tampered.name
                            => (g \in DOMAIN full.f /\ res.f[g] = full.f[g])

\* C10: toXML always yields well-formed XML: one root element, every tag
\* closed in nested order, and between the tags of a scalar field only text
\* that opens no tag of its own, also for an instance whose fields were
\* never assigned or whose repeated fields are empty.
ToXMLWellFormed ==
    (xml # <<>> /\ tampered = NoTamper) => WellFormed(xml)

\* the schema name the kind of a scalar field goes by
OwnXsdName(pyType) ==
    CASE pyType = "int"  -> "integer"
      [] pyType = "str"  -> "string"
      [] pyType = "bool" -> "boolean"
      [] OTHER           -> pyType

\* C11: the mapping from scalar kind to schema name is total and stable:
\* each of int, decimal, double, float, duration, date, time, datetime, str
\* and bool maps to its own name (double to double, bool to boolean), never
\* to a missing name, and the schema index classifies an element of that
\* name as primitive.
TypeMappingTotal ==
    mapped # NoMap
        => /\ mapped.xml = OwnXsdName(mapped.py)
           /\ mapped.xml # "None"
           /\ mapped.val = "element"

\* the record type declared for the field an item of a list was built from
ItemClass(item) ==
    ClassDict(cls)[item.c].c

\* C18: the leaves of a nested record are typed by the declaration of the
\* record type the nested element belongs to: a leaf of a nested record whose
\* field is a typed holder comes back as a holder of the declared kind, not
\* as what the top-level type says about that name.
NestedLeavesTyped ==
    (res # Unset /\ ~IsRaised(res) /\ tampered = NoTamper)
        => \A g \in DOMAIN res.f :
             res.f[g].k = "list"
                => \A i \in 1..Len(res.f[g].l) :
                     LET item == res.f[g].l[i]
                     IN  (item.k = "obj" /\ item.c \in DOMAIN ClassDict(cls)
                            /\ RefersToClass(ClassDict(cls)[item.c]))
                           => \A h \in DOMAIN item.f :
                                (h \in DOMAIN ClassDict(ItemClass(item))
                                   /\ ClassDict(ItemClass(item))[h].d = "prop")
                                  => /\ item.f[h].k = "prop"
                                     /\ item.f[h].c = ClassDict(ItemClass(item))[h].c

\* C19: whether an element is recursed into or coerced follows the field of
\* the enclosing record type: an element of the document is taken as a nested
\* record exactly when its field in the type being read is a record type (or
\* a list of one), whatever another reachable type declares under that name.
ClassificationFollowsField ==
    (res # Unset /\ tampered = NoTamper)
        => \A i \in 1..Len(RootChildren(xml)) :
             LET tag == RootChildren(xml)[i].tag
             IN  tag \in DOMAIN ClassDict(cls)
                   => /\ tag \in DOMAIN xsd2dict(xsd)
                      /\ (xsd2dict(xsd)[tag].val = "complexType")
                            <=> RefersToClass(ClassDict(cls)[tag])

\* the shape is one createWsdl is meant to take as input
RecognizedInput(shape) ==
    \/ shape.k = "complex"
    \/ shape.k = "dict" /\ \A a \in DOMAIN shape.d : shape.d[a].k \in {"prim", "array"}

\* the shape is one createWsdl is meant to take as output
RecognizedOutput(shape) ==
    \/ shape.k \in {"complex", "array", "prim"}
    \/ shape.k = "list" /\ \A i \in 1..Len(shape.l) : shape.l[i].k = "prim"

\* C12: for every combination of recognized input and output shapes (record
\* type, named-argument mapping, primitive array, primitive list, single
\* primitive) createWsdl returns a document with, in this order, the types,
\* the request message, the response message, one portType with one
\* operation, one binding (document style, literal use) and one service with
\* one port whose soap:address is the location.
WsdlStructure ==
    (wsdl # Unset /\ RecognizedInput(op.input) /\ RecognizedOutput(op.output))
        => /\ wsdl.k = "wsdl"
           /\ wsdl.sections = <<"types", "message", "message", "portType",
                                "binding", "service">>
           /\ Len(wsdl.messages) = 2
           /\ wsdl.messages[1].name = ServiceName \o "Request"
           /\ wsdl.messages[2].name = ServiceName \o "Response"
           /\ Len(wsdl.portTypes) = 1
           /\ Len(wsdl.portTypes[1].operations) = 1
           /\ wsdl.portTypes[1].operations[1].name = op.operation
           /\ Len(wsdl.bindings) = 1
           /\ wsdl.bindings[1].style = "document"
           /\ Len(wsdl.bindings[1].operations) = 1
           /\ wsdl.bindings[1].operations[1].input = "literal"
           /\ wsdl.bindings[1].operations[1].output = "literal"
           /\ Len(wsdl.services) = 1
           /\ Len(wsdl.services[1].ports) = 1
           /\ wsdl.services[1].ports[1].address = Location

\* the name ends in "Params"
EndsInParams(name) ==
    name \in {base \o "Params" : base \in {"params", "returns", "getData", ServiceName}}

\* the kind declared for the k-th argument
DeclaredKind(k) == op.input.d[op.args.l[k]]

\* C13: for an operation whose input is a named-argument mapping the types
\* section holds exactly one synthesized complex type for the input, its name
\* ends in "Params", it is a sequence of one element per argument, named after
\* the arguments in argument order and typed by the kind declared for each,
\* and the part of the request message references the wrapper element.
NamedArgumentWrapper ==
    (wsdl # Unset /\ op.input.k = "dict" /\ RecognizedInput(op.input)
        /\ RecognizedOutput(op.output))
        => /\ wsdl.k = "wsdl"
           /\ LET part == wsdl.messages[1].element
                  wrappers == SelectSeq(wsdl.types, LAMBDA t :
                                 t.tag = "element" /\ t.name = part[2])
                  wrapped == SelectSeq(wsdl.types, LAMBDA t :
                                 /\ t.tag = "complexType"
                                 /\ Len(wrappers) = 1
                                 /\ t.name = wrappers[1].type[2])
              IN  /\ Len(wrappers) = 1
                  /\ Len(wrapped) = 1
                  /\ EndsInParams(wrapped[1].name)
                  /\ Len(wrapped[1].elems) = Len(op.args.l)
                  /\ \A k \in 1..Len(op.args.l) :
                       /\ wrapped[1].elems[k].name = op.args.l[k]
                       /\ wrapped[1].elems[k].type = <<"xsd", xsdNameOf(DeclaredKind(k).c)>>

\* C14: createWsdl fails exactly when the input or the output shape is not a
\* recognized one; for an unrecognized shape no document is returned, and in
\* every document returned each message part references an element that the
\* types section declares.
CreateWsdlFailsIffUnrecognized ==
    wsdl # Unset
        => /\ IsRaised(wsdl)
              <=> ~(RecognizedInput(op.input) /\ RecognizedOutput(op.output))
           /\ ~IsRaised(wsdl)
                => \A m \in 1..Len(wsdl.messages) :
                     \E t \in 1..Len(wsdl.types) :
                        /\ wsdl.types[t].tag = "element"
                        /\ wsdl.types[t].name = wsdl.messages[m].element[2]

\* C15: a failure while a POST is handled surfaces as a SOAP fault: the
\* response body of a failed request is the envelope of the fault, never
\* empty.
FailuresSurfaceAsFaults ==
    (reqbody # NoRequest /\ fault # Unset)
        => /\ written # <<>>
           /\ written = <<getSoap(fault)>>

\* C16: the children extracted from the envelope stay parseable on their
\* own: for every request a namespace-aware parser accepts, extraction
\* succeeds and every prefix an extracted element, its attributes or its
\* descendants use is declared inside the extracted element, also when the
\* request declares the prefix on the envelope only.
ExtractedChildrenParseable ==
    (reqbody # NoRequest /\ reqbody.kind = "soap")
        => /\ request # Unset
           /\ \A i \in 1..Len(getHeader(request)) : Bound(getHeader(request)[i], {})
           /\ \A i \in 1..Len(getBody(request)) : Bound(getBody(request)[i], {})

\* the elements named name under node, at any depth
ElementsNamed(node, name) ==
    LET found == getElementsByTagName(node, name)
    IN  {found[i] : i \in 1..Len(found)}

\* the value the element carries for an argument of the given kind
ArgumentValue(type, e) ==
    IF Len(e.kids) > 0 THEN genTypeOf(type, e.kids[1]) ELSE NoneV

\* C20: the arguments stay aligned: for a request whose envelope parses and
\* whose body holds the element of the operation, an operation with the
\* argument names a1..an is invoked with exactly n positional values, the
\* k-th taken from an element named ak (None when that element is empty or
\* absent), also when the body omits an element or holds one more than once,
\* at any depth.
ArgumentsAligned ==
    (reqbody # NoRequest /\ request # Unset /\ Len(getBody(request)) > 0
        /\ op.input.k = "dict" /\ ~op.inputArray /\ RecognizedInput(op.input))
        => /\ call # Unset
           /\ Len(call.l) = Len(op.args.l)
           /\ \A k \in 1..Len(op.args.l) :
                LET named == ElementsNamed(getBody(request)[1], op.args.l[k])
                IN  IF named = {} THEN call.l[k] = NoneV
                    ELSE \E e \in named : call.l[k] = ArgumentValue(DeclaredKind(k), e)

\* the addresses of the objects of the instance of caller i
ObjectsOf(i) == Reach(heap, Ref(inst[i].self))

\* C17: calls are independent under any interleaving of construction,
\* assignment, toXML, toXSD and xml2object on different instances of one
\* record type: no call changes the objects of the declaration, each
\* instance holds exactly what the calls of its own caller put there, each
\* call returns what it returns when the caller runs alone, and no two
\* instances share a field holder or a list, with each other or with the
\* declaration.
CallsIndependent ==
    heap # <<>>
        => /\ \A a \in 1..Len(ClassHeap) : heap[a] = ClassHeap[a]
           /\ \A i \in Callers :
                /\ inst[i].pc = "ready"
                     => Deref(heap, Ref(inst[i].self)) = solo[i].obj
                /\ out[i].xml = solo[i].xml
                /\ out[i].xsd = solo[i].xsd
                /\ out[i].res = solo[i].res
                /\ inst[i].pc # "idle"
                     => ObjectsOf(i) \cap (1..Len(ClassHeap)) = {}
           /\ \A i, j \in Callers :
                (i # j /\ inst[i].pc # "idle" /\ inst[j].pc # "idle")
                   => ObjectsOf(i) \cap ObjectsOf(j) = {}

\* both callers filled their instance differently, while the calls of one
\* ran between those of the other, and both got their results
CallsInterleaved ==
    /\ heap # <<>>
    /\ \A i \in Callers : inst[i].pc = "ready"
    /\ inst[1].self < inst[2].self
    /\ \E a \in ObjectsOf(1) : a > inst[2].self
    /\ solo[1].obj # solo[2].obj
    /\ IsPopulated(solo[1].obj)
    /\ IsPopulated(solo[2].obj)
    /\ \A i \in Callers : out[i].res # Unset /\ out[i].xsd # <<>>

====
